---- MODULE Spec2Model ----
(***************************************************************************)
(* ArcString (src/compact_str/src/repr/heap/arc.rs): a two-word handle     *)
(* {len, ptr} onto a reference-counted heap block {ref_count, capacity,    *)
(* str_buffer}.  Threads run the handle operations; every access to the    *)
(* atomic ref_count and every (de)allocation is a step of its own, so the  *)
(* interleavings of clone, drop and the copy-on-write gate are explored.   *)
(***************************************************************************)
EXTENDS Integers, Sequences, FiniteSets, TLC

(* ------------------------------ bounds -------------------------------- *)
\* handle slots that may be live at once
MaxHandles == 2
\* largest `additional` handed to ArcString::new / reserve by a caller
MaxAdditional == 1
\* concurrent runs: longest content (bytes) built, longest text (chars) given
\* to new / push_str, most items given to one extend call
MaxLen == 2
MaxText == 1
MaxItems == 1
\* concurrent runs: calls begun in one run
MaxCalls == 5
\* single-thread runs: the same four
SeqMaxLen == 4
SeqMaxText == 1
SeqMaxItems == 1
SeqMaxCalls == 4
\* reference-count runs: handle slots, longest content, calls begun
RcMaxHandles == 3
RcMaxLen == 1
RcMaxCalls == 5
\* fair runs: calls begun
LiveMaxCalls == 4
\* growth runs: calls begun (new, at most one clone, then pushes of one byte)
GrowMaxCalls == 40
\* ceiling runs: how far below MAX_REFCOUNT the count starts, calls begun
CeilMargin == 2
CeilMaxCalls == 4

(* --------------------------- program constants ------------------------ *)
\* usize::MAX of the modelled target (16-bit pointers, the narrowest Rust
\* target: every usize then fits TLC's 32-bit integers)
USIZE_MAX == 65535
MAX_REFCOUNT_UsizeMax == USIZE_MAX
\* const MAX_REFCOUNT: usize = (isize::MAX) as usize;
MAX_REFCOUNT == 32767

Max(a, b) == IF a >= b THEN a ELSE b

Threads == {1, 2}
\* handle slots (a run uses as many of them as its bound allows)
Handles == 1..Max(MaxHandles, RcMaxHandles)
\* one block per live handle plus one temporary per thread in flight
Blocks == 1..(Cardinality(Handles) + Cardinality(Threads))

\* Unicode scalar values used as inputs: 'a', 'b'; and 'a', U+00E9, U+20AC,
\* U+1F600 (1, 2, 3 and 4 bytes of UTF-8)
Chars == {97, 98}
WideChars == {97, 233, 8364, 128512}

\* a byte of str_buffer that was allocated and never written
Uninit == -1

(* ------------------------------ UTF-8 --------------------------------- *)
\* char::len_utf8
len_utf8(c) ==
    IF c < 128 THEN 1 ELSE IF c < 2048 THEN 2 ELSE IF c < 65536 THEN 3 ELSE 4

\* char::encode_utf8: the bytes written into the destination slice
encode_utf8(c) ==
    IF c < 128 THEN <<c>>
    ELSE IF c < 2048 THEN <<192 + (c \div 64), 128 + (c % 64)>>
    ELSE IF c < 65536 THEN
        <<224 + (c \div 4096), 128 + ((c \div 64) % 64), 128 + (c % 64)>>
    ELSE <<240 + (c \div 262144), 128 + ((c \div 4096) % 64),
           128 + ((c \div 64) % 64), 128 + (c % 64)>>

\* str::as_bytes of a text given as its sequence of scalar values
RECURSIVE as_bytes(_)
as_bytes(s) == IF s = <<>> THEN <<>> ELSE encode_utf8(Head(s)) \o as_bytes(Tail(s))

\* utf8_is_cont_byte
is_cont_byte(b) == b >= 128 /\ b < 192

\* str.chars().rev().next(): decodes the last scalar value of a non-empty
\* byte string by walking back over continuation bytes (at most three)
last_char(s) ==
    LET n == Len(s)
        z == s[n]
    IN  IF z < 128 \/ n = 1 THEN z
        ELSE LET y == s[n - 1] IN
             IF ~is_cont_byte(y) \/ n = 2 THEN (y % 32) * 64 + (z % 64)
             ELSE LET x == s[n - 2] IN
                  IF ~is_cont_byte(x) \/ n = 3
                  THEN ((x % 16) * 64 + (y % 64)) * 64 + (z % 64)
                  ELSE LET w == s[n - 3] IN
                       (((w % 8) * 64 + (x % 64)) * 64 + (y % 64)) * 64 + (z % 64)

\* str::from_utf8 accepts the byte string
RECURSIVE from_utf8_ok(_)
from_utf8_ok(s) ==
    IF s = <<>> THEN TRUE
    ELSE LET b == s[1]
             n == IF b >= 0 /\ b < 128 THEN 1
                  ELSE IF b >= 194 /\ b < 224 THEN 2
                  ELSE IF b >= 224 /\ b < 240 THEN 3
                  ELSE IF b >= 240 /\ b < 245 THEN 4 ELSE 0
         IN  /\ n > 0
             /\ Len(s) >= n
             /\ \A i \in 2..n : is_cont_byte(s[i])
             /\ (b = 224 => s[2] >= 160)
             /\ (b = 237 => s[2] < 160)
             /\ (b = 240 => s[2] >= 144)
             /\ (b = 244 => s[2] < 144)
             /\ from_utf8_ok(SubSeq(s, n + 1, Len(s)))

(* ------------------------------ state --------------------------------- *)
VARIABLES
    debug_assertions, \* cfg!(debug_assertions) of the build
    blocks,           \* heap: block id -> ArcStringInner (or free memory)
    handles,          \* handle slot -> ArcString value (or empty slot)
    th,               \* thread -> where it is inside a call, and the call's locals
    history,          \* whether this run keeps records of calls (never changes)
    ret,              \* thread -> the record of the last call it finished
    ncalls,           \* calls begun so far
    nallocs           \* blocks allocated so far (negative: this run keeps no count)

vars == <<debug_assertions, blocks, handles, th, history, ret, ncalls, nallocs>>
\* what every step leaves alone: the build and the choice to keep records
fixed == <<debug_assertions, history>>

\* memory not holding an ArcStringInner
FreeBlock == [live |-> FALSE, ref_count |-> 0, capacity |-> 0, str_buffer |-> <<>>]
\* a slot holding no ArcString; ptr 0 is no block (NonNull is never 0)
NoHandle == [st |-> "none", len |-> 0, ptr |-> 0]
\* no record. n: the number of the call among the calls begun (0: none);
\* op, h, arg, add: the call; before: as_str(h) when it began;
\* res: "ok" or "panic"; val: the char pop returned; made: the slot of the
\* handle new / clone returned; snap: as_str of the handles sharing h's block
\* when h was dropped; pp, orig: a push of the char that the call before it,
\* a pop on h, had returned from content orig
NoCall == [n |-> 0, op |-> "none", h |-> 0, arg |-> <<>>, add |-> 0, before |-> <<>>,
           res |-> "none", val |-> -1, made |-> 0, snap |-> <<>>,
           pp |-> FALSE, orig |-> <<>>]
\* a thread outside every call. pc: the step it is at; h: the handle (self);
\* len, cur: the locals `len` and the bytes to append; rest: the items the
\* iterator of extend still holds; new: the ArcString built for `*self = ..`;
\* k: where the call goes on after that assignment; call: its record
Idle == [pc |-> "idle", h |-> 0, new |-> NoHandle, len |-> 0, cur |-> <<>>,
         rest |-> <<>>, k |-> "idle", call |-> NoCall]

\* ArcStringInner::as_bytes: the whole buffer of the block
inner_as_bytes(b) == blocks[b].str_buffer

\* ArcString::capacity
capacity(hd) == blocks[hd.ptr].capacity

\* ArcString::as_slice / as_str: &self.inner().as_bytes()[..self.len]
as_slice(hd) ==
    [i \in 1..hd.len |->
        IF i <= Len(inner_as_bytes(hd.ptr)) THEN inner_as_bytes(hd.ptr)[i] ELSE Uninit]

as_str(h) == as_slice(handles[h])

\* the record of a call as it begins (when records are kept at all)
Call(op, h, arg) ==
    IF history
    THEN [NoCall EXCEPT !.n = ncalls + 1, !.op = op, !.h = h, !.arg = arg,
                        !.before = IF h = 0 THEN <<>> ELSE as_str(h)]
    ELSE NoCall

Init ==
    /\ debug_assertions \in BOOLEAN
    /\ blocks = [b \in Blocks |-> FreeBlock]
    /\ handles = [h \in Handles |-> NoHandle]
    /\ th = [t \in Threads |-> Idle]
    /\ ret = [t \in Threads |-> NoCall]
    /\ history = FALSE
    /\ ncalls = 0
    /\ nallocs = -1

(* --------------------------- borrow rules ----------------------------- *)
\* some call is running on the handle (&self or &mut self is out)
InUse(h) == \E t \in Threads : th[t].h = h
\* a &mut self call (or drop) is running on the handle
MutInUse(h) == \E t \in Threads : th[t].h = h /\ th[t].pc # "clone_ret"
\* a &mut self call (or drop) may start on h: the thread is free, nobody holds h
CanMutate(t, h) == th[t].pc = "idle" /\ handles[h].st = "live" /\ ~InUse(h)

FreeSlots == {h \in Handles : handles[h].st = "none"}
\* slots already promised to clones that have done their fetch_add
PendingClones == {t \in Threads : th[t].pc = "clone_ret"}
SlotAvailable == Cardinality(FreeSlots) > Cardinality(PendingClones)
\* slots holding a handle or promised to a clone
SlotsTaken == Cardinality(Handles \ FreeSlots) + Cardinality(PendingClones)
NextSlot == CHOOSE h \in FreeSlots : \A g \in FreeSlots : h <= g

(* ------------------------------ heap ---------------------------------- *)
\* ArcStringInner::alloc: the allocator hands out memory that holds no block
CanAlloc == \E b \in Blocks : ~blocks[b].live
AllocPtr == CHOOSE b \in Blocks : ~blocks[b].live /\ \A c \in Blocks : c < b => blocks[c].live
\* ArcStringInner::alloc was called once in this step
Allocated == nallocs' = IF nallocs < 0 THEN nallocs ELSE nallocs + 1

\* ArcStringInner::with_capacity: ref_count 1, capacity stored, bytes untouched
with_capacity(cap) ==
    [live |-> TRUE, ref_count |-> 1, capacity |-> cap,
     str_buffer |-> [i \in 1..cap |-> Uninit]]

NewCapacity_OmitLen(len, additional) == additional
\* let capacity = len + additional;
NewCapacity(len, additional) == len + additional

\* ArcString::new: the block built for text (bytes) with extra capacity
ArcStringNew(text, additional) ==
    LET cap == NewCapacity(Len(text), additional)
    IN  [with_capacity(cap) EXCEPT
            !.str_buffer = [i \in 1..cap |-> IF i <= Len(text) THEN text[i] ELSE Uninit]]

\* AtomicUsize::fetch_sub wraps at zero; fetch_add wraps at usize::MAX
wrapping_sub_Same(n) == n
wrapping_sub(n) == IF n = 0 THEN USIZE_MAX ELSE n - 1
wrapping_add_Same(n) == n
wrapping_add(n) == IF n = USIZE_MAX THEN 0 ELSE n + 1

DropIsLast_AtMostTwo(prev) == prev <= 2
\* if self.inner().ref_count.fetch_sub(1, Release) != 1 { return; }
DropIsLast(prev) == prev = 1

\* ArcStringInner::dealloc
dealloc(b) == [blocks EXCEPT ![b] = FreeBlock]

(* ------------------------- finishing a call --------------------------- *)
\* the call of thread record r returns (res "ok") or panics
Finish(t, r, res) ==
    /\ th' = [th EXCEPT ![t] = Idle]
    /\ ret' = [ret EXCEPT ![t] = IF history THEN [r.call EXCEPT !.res = res] ELSE NoCall]

\* the call of thread record r goes on at pc k; at "done", and in the loop of
\* extend with no item left, it returns
Continue(t, r, k) ==
    IF k = "done" \/ (k = "iter" /\ r.rest = <<>>)
    THEN Finish(t, r, "ok")
    ELSE /\ th' = [th EXCEPT ![t] = [r EXCEPT !.pc = k, !.new = NoHandle, !.k = "idle"]]
         /\ ret' = ret

(* --------------------------- construction ----------------------------- *)
\* ArcString::new(text, additional), called by a user of the type
New(t, text, additional) ==
    /\ ncalls' = ncalls + 1
    /\ th[t].pc = "idle"
    /\ SlotAvailable /\ CanAlloc
    /\ Allocated
    /\ LET h == NextSlot
           b == AllocPtr
       IN  /\ blocks' = [blocks EXCEPT ![b] = ArcStringNew(as_bytes(text), additional)]
           /\ handles' = [handles EXCEPT
                 ![h] = [st |-> "live", len |-> Len(as_bytes(text)), ptr |-> b]]
           /\ Finish(t, [Idle EXCEPT !.call = [Call("new", 0, text) EXCEPT
                                        !.made = h, !.add = additional]], "ok")
    /\ UNCHANGED fixed

(* ------------------------------- clone -------------------------------- *)
CloneHandle_ZeroLen(hd) == [st |-> "live", len |-> 0, ptr |-> hd.ptr]
\* ArcString { len: self.len, ptr: self.ptr }
CloneHandle(hd) == [st |-> "live", len |-> hd.len, ptr |-> hd.ptr]

\* clone, first half: fetch_add(1, Relaxed) and the MAX_REFCOUNT assertion
CloneFetchAdd(t, h) ==
    /\ ncalls' = ncalls + 1
    /\ UNCHANGED nallocs
    /\ th[t].pc = "idle"
    /\ handles[h].st = "live" /\ ~MutInUse(h)
    /\ SlotAvailable
    /\ LET b == handles[h].ptr
           old_count == blocks[b].ref_count
           r == [Idle EXCEPT !.pc = "clone_ret", !.h = h, !.call = Call("clone", h, <<>>)]
       IN  /\ blocks' = [blocks EXCEPT ![b].ref_count = wrapping_add(old_count)]
           /\ IF old_count < MAX_REFCOUNT
              THEN th' = [th EXCEPT ![t] = r] /\ ret' = ret
              ELSE Finish(t, r, "panic")
    /\ UNCHANGED <<fixed, handles>>

\* clone, second half: the new handle value is returned to the caller
CloneRet(t) ==
    /\ UNCHANGED <<ncalls, nallocs>>
    /\ th[t].pc = "clone_ret"
    /\ handles' = [handles EXCEPT ![NextSlot] = CloneHandle(handles[th[t].h])]
    /\ Finish(t, [th[t] EXCEPT !.call.made = NextSlot], "ok")
    /\ UNCHANGED <<fixed, blocks>>

(* -------------------------------- drop -------------------------------- *)
\* as_str of every other handle that shares the block of h
Peers(h) ==
    LET P == {g \in Handles \ {h} :
                 handles[g].st = "live" /\ handles[g].ptr = handles[h].ptr}
    IN  [g \in P |-> as_str(g)]

\* Drop::drop, first half: fetch_sub(1, Release) and the test of its result
DropFetchSub(t, h) ==
    /\ ncalls' = ncalls + 1
    /\ UNCHANGED nallocs
    /\ CanMutate(t, h)
    /\ LET b == handles[h].ptr
           prev == blocks[b].ref_count
           r == [Idle EXCEPT !.pc = "drop_dealloc", !.h = h,
                             !.call = [Call("drop", h, <<>>) EXCEPT
                                          !.snap = IF history THEN Peers(h) ELSE <<>>]]
       IN  /\ blocks' = [blocks EXCEPT ![b].ref_count = wrapping_sub(prev)]
           /\ IF DropIsLast(prev)
              THEN /\ th' = [th EXCEPT ![t] = r]
                   /\ handles' = [handles EXCEPT ![h].st = "dropping"]
                   /\ ret' = ret
              ELSE /\ handles' = [handles EXCEPT ![h] = NoHandle]
                   /\ Finish(t, r, "ok")
    /\ UNCHANGED fixed

\* Drop::drop, second half: fence(Acquire); self.drop_inner()
DropDealloc(t) ==
    /\ UNCHANGED <<ncalls, nallocs>>
    /\ th[t].pc = "drop_dealloc"
    /\ blocks' = dealloc(handles[th[t].h].ptr)
    /\ handles' = [handles EXCEPT ![th[t].h] = NoHandle]
    /\ Finish(t, th[t], "ok")
    /\ UNCHANGED fixed

(* -------------------------------- pop --------------------------------- *)
PopNewLen_OneByte(len, c) == len - 1
\* self.len -= c.len_utf8();
PopNewLen(len, c) == len - len_utf8(c)

\* ArcString::pop
Pop(t, h) ==
    /\ ncalls' = ncalls + 1
    /\ UNCHANGED nallocs
    /\ CanMutate(t, h)
    /\ LET s == as_str(h)
           r == [Idle EXCEPT !.call = Call("pop", h, <<>>)]
       IN  IF s = <<>>
           THEN /\ handles' = handles
                /\ Finish(t, r, "ok")
           ELSE /\ handles' = [handles EXCEPT ![h].len = PopNewLen(handles[h].len, last_char(s))]
                /\ Finish(t, [r EXCEPT !.call.val = IF history THEN last_char(s) ELSE -1],
                          "ok")
    /\ UNCHANGED <<fixed, blocks>>

(* ------------------------------ reserve ------------------------------- *)
GrowCapacity_Required(cap, additional) == cap + additional
GrowCapacity_Current(cap, additional) == cap
\* max(3 * capacity / 2, capacity + additional)
GrowCapacity(cap, additional) == Max((3 * cap) \div 2, cap + additional)

\* the branch ArcString::reserve takes: a failed debug_assert!, a
\* reallocation, or nothing to do
ReserveOutcome(hd, additional) ==
    IF debug_assertions /\ ~(additional > 0) THEN "panic"
    ELSE IF additional > capacity(hd) - hd.len
         THEN IF debug_assertions
                 /\ ~(GrowCapacity(capacity(hd), additional) > capacity(hd))
              THEN "panic" ELSE "grow"
         ELSE "fits"

\* self.reserve(additional) run by thread record r, going on at pc k; when it
\* reallocates, ArcString::new(self.as_str(), new_capacity - self.len()) is
\* built here and `*self = ...` follows in AssignDrop
DoReserve(t, r, additional, k) ==
    LET hd == handles[r.h]
        out == ReserveOutcome(hd, additional)
    IN  CASE out = "panic" ->
                /\ Finish(t, r, "panic")
                /\ UNCHANGED <<fixed, blocks, handles, nallocs>>
          [] out = "grow" ->
                /\ CanAlloc
                /\ Allocated
                /\ blocks' = [blocks EXCEPT ![AllocPtr] =
                      ArcStringNew(as_slice(hd),
                                   GrowCapacity(capacity(hd), additional) - hd.len)]
                /\ th' = [th EXCEPT ![t] =
                      [r EXCEPT !.pc = "assign_drop", !.k = k,
                                !.new = [st |-> "live", len |-> hd.len, ptr |-> AllocPtr]]]
                /\ UNCHANGED <<fixed, handles, ret>>
          [] out = "fits" ->
                /\ Continue(t, r, k)
                /\ UNCHANGED <<fixed, blocks, handles, nallocs>>

\* `*self = new`, first half: the old value of self is dropped in place
\* (fetch_sub), and unless it was the last referent the new value is moved in
AssignDrop(t) ==
    /\ UNCHANGED <<ncalls, nallocs>>
    /\ th[t].pc = "assign_drop"
    /\ LET r == th[t]
           b == handles[r.h].ptr
           prev == blocks[b].ref_count
       IN  /\ blocks' = [blocks EXCEPT ![b].ref_count = wrapping_sub(prev)]
           /\ IF DropIsLast(prev)
              THEN /\ th' = [th EXCEPT ![t].pc = "assign_dealloc"]
                   /\ UNCHANGED <<handles, ret>>
              ELSE /\ handles' = [handles EXCEPT ![r.h] = r.new]
                   /\ Continue(t, r, r.k)
    /\ UNCHANGED fixed

\* `*self = new`, second half: the old block is freed, the new value moved in
AssignDealloc(t) ==
    /\ UNCHANGED <<ncalls, nallocs>>
    /\ th[t].pc = "assign_dealloc"
    /\ blocks' = dealloc(handles[th[t].h].ptr)
    /\ handles' = [handles EXCEPT ![th[t].h] = th[t].new]
    /\ Continue(t, th[t], th[t].k)
    /\ UNCHANGED fixed

(* ------------------------- copy-on-write gate ------------------------- *)
CompareExchange_Always(cur) == TRUE
\* ref_count.compare_exchange(1, 0, Acquire, Relaxed).is_ok()
CompareExchange(cur) == cur = 1

OnCasFailure_Retry == "gate"
\* .is_err() { .. }: a failed compare-and-swap enters the copying branch
OnCasFailure == "gate_copy"

\* make_mut_slice: the compare-and-swap 1 -> 0 on the handle's block
GateCas(t) ==
    /\ UNCHANGED <<ncalls, nallocs>>
    /\ th[t].pc = "gate"
    /\ LET b == handles[th[t].h].ptr IN
       IF CompareExchange(blocks[b].ref_count)
       THEN /\ blocks' = [blocks EXCEPT ![b].ref_count = 0]
            /\ th' = [th EXCEPT ![t].pc = "gate_store"]
       ELSE /\ blocks' = blocks
            /\ th' = [th EXCEPT ![t].pc = OnCasFailure]
    /\ UNCHANGED <<fixed, handles, ret>>

store_Lost(old, val) == old
\* AtomicUsize::store(val, Release): the value the atomic holds afterwards
store(old, val) == val

\* make_mut_slice, sole referent: self.inner().ref_count.store(1, Release)
GateStore(t) ==
    /\ UNCHANGED <<ncalls, nallocs>>
    /\ th[t].pc = "gate_store"
    /\ blocks' = [blocks EXCEPT ![handles[th[t].h].ptr].ref_count = store(@, 1)]
    /\ th' = [th EXCEPT ![t].pc = "write"]
    /\ UNCHANGED <<fixed, handles, ret>>

\* make_mut_slice, shared: Self::new(self.as_str(), capacity - len) is built;
\* `*self = new` follows in AssignDrop
GateCopy(t) ==
    /\ UNCHANGED ncalls
    /\ Allocated
    /\ th[t].pc = "gate_copy"
    /\ CanAlloc
    /\ LET hd == handles[th[t].h]
           additional == capacity(hd) - hd.len
       IN  /\ blocks' = [blocks EXCEPT ![AllocPtr] = ArcStringNew(as_slice(hd), additional)]
           /\ th' = [th EXCEPT ![t].pc = "assign_drop", ![t].k = "write",
                                ![t].new = [st |-> "live", len |-> hd.len, ptr |-> AllocPtr]]
    /\ UNCHANGED <<fixed, handles, ret>>

(* ------------------------------ appending ----------------------------- *)
PushNewLen_PlusOne(len, n) == len + 1
\* self.len += char_len;  /  self.len += str_len;
PushNewLen(len, n) == len + n

WriteAt_Start(buf, off, bytes) ==
    [i \in 1..Len(buf) |-> IF i <= Len(bytes) THEN bytes[i] ELSE buf[i]]
\* ch.encode_utf8(&mut mut_slice[len..]) / mut_slice[len..len + str_len].copy_from_slice(..)
WriteAt(buf, off, bytes) ==
    [i \in 1..Len(buf) |->
        IF i > off /\ i <= off + Len(bytes) THEN bytes[i - off] ELSE buf[i]]

\* push / push_str after the gate: the bytes go into the block at the offset
\* read on entry and len is advanced (slicing past the buffer panics); then
\* the call returns, or the loop of extend goes on
Write(t) ==
    /\ UNCHANGED <<ncalls, nallocs>>
    /\ th[t].pc = "write"
    /\ LET r == th[t]
           hd == handles[r.h]
           b == hd.ptr
       IN  IF r.len + Len(r.cur) > Len(blocks[b].str_buffer)
           THEN /\ Finish(t, r, "panic")
                /\ UNCHANGED <<blocks, handles>>
           ELSE /\ blocks' = [blocks EXCEPT
                      ![b].str_buffer = WriteAt(blocks[b].str_buffer, r.len, r.cur)]
                /\ handles' = [handles EXCEPT ![r.h].len = PushNewLen(hd.len, Len(r.cur))]
                /\ Continue(t, r, "iter")
    /\ UNCHANGED fixed

\* push(ch) / push_str(s) on entry: `len` and the byte length are read and
\* self.reserve(..) is run; the gate follows
AppendBytes(t, r, bytes) ==
    DoReserve(t, [r EXCEPT !.len = handles[r.h].len, !.cur = bytes], Len(bytes), "gate")

\* ArcString::push(ch)
Push(t, h, ch) ==
    /\ ncalls' = ncalls + 1
    /\ CanMutate(t, h)
    /\ LET pp == ret[t].op = "pop" /\ ret[t].h = h /\ ret[t].val = ch IN
       AppendBytes(t, [Idle EXCEPT !.h = h,
                     !.call = [Call("push", h, <<ch>>) EXCEPT
                                  !.pp = pp,
                                  !.orig = IF pp THEN ret[t].before ELSE <<>>]],
              encode_utf8(ch))

\* ArcString::push_str(s)
PushStr(t, h, s) ==
    /\ ncalls' = ncalls + 1
    /\ CanMutate(t, h)
    /\ AppendBytes(t, [Idle EXCEPT !.h = h, !.call = Call("push_str", h, s)], as_bytes(s))

\* ArcString::reserve(additional), called by a user of the type
Reserve(t, h, additional) ==
    /\ ncalls' = ncalls + 1
    /\ CanMutate(t, h)
    /\ DoReserve(t, [Idle EXCEPT !.h = h,
                        !.call = [Call("reserve", h, <<>>) EXCEPT !.add = additional]],
                 additional, "done")

(* ------------------------------- extend ------------------------------- *)
\* one round of for_each: the next item is pushed (a char) or push_str'ed
NextItem(t, r) == AppendBytes(t, [r EXCEPT !.rest = Tail(r.rest)], as_bytes(Head(r.rest)))

\* the loop of extend, at its next item
Iter(t) ==
    /\ UNCHANGED ncalls
    /\ th[t].pc = "iter"
    /\ NextItem(t, th[t])

\* a char as the one-char text it encodes to
RECURSIVE texts(_)
texts(cs) == IF cs = <<>> THEN <<>> ELSE <<<<Head(cs)>>>> \o texts(Tail(cs))

\* Extend<char>::extend: size_hint's lower bound is reserved, then every char
\* is pushed
ExtendChars(t, h, items, lower_bound) ==
    /\ ncalls' = ncalls + 1
    /\ CanMutate(t, h)
    /\ DoReserve(t, [Idle EXCEPT !.h = h, !.rest = texts(items),
                        !.call = [Call("extend_chars", h, items) EXCEPT
                                     !.add = lower_bound]],
                 lower_bound, "iter")

RECURSIVE concat(_)
concat(ss) == IF ss = <<>> THEN <<>> ELSE Head(ss) \o concat(Tail(ss))

\* Extend<&str> (and Box<str>, String)::extend: every string is push_str'ed
ExtendStrs(t, h, items) ==
    /\ ncalls' = ncalls + 1
    /\ CanMutate(t, h)
    /\ LET r == [Idle EXCEPT !.h = h, !.rest = items,
                             !.call = Call("extend_strs", h, items)]
       IN  IF items = <<>>
           THEN Finish(t, r, "ok") /\ UNCHANGED <<fixed, blocks, handles, nallocs>>
           ELSE NextItem(t, r)

(* ---------------------------- specification --------------------------- *)
SeqsUpTo(S, n) == UNION {[1..m -> S] : m \in 0..n}

\* the calls threads T may make with chars C, texts of up to mt chars and
\* extend calls of up to mi items, while content stays within ml bytes,
\* fewer than mc calls were begun and fewer than mh handles exist; and the
\* steps of the calls under way
Calls(T, C, mt, mi, ml, mc, mh) ==
    \/ \E t \in T, text \in SeqsUpTo(C, mt), additional \in 0..MaxAdditional :
            /\ ncalls < mc /\ SlotsTaken < mh /\ Len(as_bytes(text)) <= ml
            /\ New(t, text, additional)
    \/ \E t \in T, h \in Handles : ncalls < mc /\ SlotsTaken < mh /\ CloneFetchAdd(t, h)
    \/ \E t \in T : CloneRet(t)
    \/ \E t \in T, h \in Handles : ncalls < mc /\ DropFetchSub(t, h)
    \/ \E t \in T : DropDealloc(t)
    \/ \E t \in T, h \in Handles : ncalls < mc /\ Pop(t, h)
    \/ \E t \in T, h \in Handles, ch \in C :
            ncalls < mc /\ handles[h].len + len_utf8(ch) <= ml /\ Push(t, h, ch)
    \/ \E t \in T, h \in Handles, s \in SeqsUpTo(C, mt) :
            ncalls < mc /\ handles[h].len + Len(as_bytes(s)) <= ml /\ PushStr(t, h, s)
    \/ \E t \in T, h \in Handles, additional \in 0..MaxAdditional :
            ncalls < mc /\ Reserve(t, h, additional)
    \/ \E t \in T, h \in Handles, items \in SeqsUpTo(C, mi) :
            /\ ncalls < mc /\ handles[h].len + Len(as_bytes(items)) <= ml
            /\ \E lower_bound \in 0..Len(items) : ExtendChars(t, h, items, lower_bound)
    \/ \E t \in T, h \in Handles, items \in SeqsUpTo(SeqsUpTo(C, mt), mi) :
            /\ ncalls < mc /\ handles[h].len + Len(as_bytes(concat(items))) <= ml
            /\ ExtendStrs(t, h, items)
    \/ \E t \in T : Iter(t)
    \/ \E t \in T : AssignDrop(t)
    \/ \E t \in T : AssignDealloc(t)
    \/ \E t \in T : GateCas(t)
    \/ \E t \in T : GateStore(t)
    \/ \E t \in T : GateCopy(t)
    \/ \E t \in T : Write(t)

\* every thread calls concurrently, on short content of one-byte chars
Next == Calls(Threads, Chars, MaxText, MaxItems, MaxLen, MaxCalls, MaxHandles)
Spec == Init /\ [][Next]_vars

\* one thread calls, on content of 1- to 4-byte chars, and records are kept
InitSeq ==
    /\ debug_assertions \in BOOLEAN
    /\ blocks = [b \in Blocks |-> FreeBlock]
    /\ handles = [h \in Handles |-> NoHandle]
    /\ th = [t \in Threads |-> Idle]
    /\ ret = [t \in Threads |-> NoCall]
    /\ history = TRUE
    /\ ncalls = 0
    /\ nallocs = -1
NextSeq == Calls({1}, WideChars, SeqMaxText, SeqMaxItems, SeqMaxLen, SeqMaxCalls, MaxHandles)
SpecSeq == InitSeq /\ [][NextSeq]_vars

\* the steps thread t takes inside a call it has begun
Step(t) ==
    \/ CloneRet(t) \/ DropDealloc(t) \/ Iter(t) \/ AssignDrop(t) \/ AssignDealloc(t)
    \/ GateCas(t) \/ GateStore(t) \/ GateCopy(t) \/ Write(t)

\* every thread calls concurrently on up to RcMaxHandles handles of content
\* 'a' or empty
NextRc == Calls(Threads, {97}, RcMaxLen, RcMaxLen, RcMaxLen, RcMaxCalls, RcMaxHandles)
SpecRc == Init /\ [][NextRc]_vars

\* the same calls, fewer of them, under fair scheduling: a thread inside a
\* call is scheduled again (the operating system starves no runnable thread)
NextLive == Calls(Threads, {97}, RcMaxLen, RcMaxLen, RcMaxLen, LiveMaxCalls, RcMaxHandles)
SpecLive == Init /\ [][NextLive]_vars /\ \A t \in Threads : WF_vars(Step(t))

\* the i-th byte of the content built in growth runs: "abab.."
PatternByte(i) == IF i % 2 = 1 THEN 97 ELSE 98
Pattern(n) == [i \in 1..n |-> PatternByte(i)]

\* one thread builds a handle, clones it or not, and then only pushes one
\* byte after the other onto it; allocations are counted
InitGrow ==
    /\ debug_assertions \in BOOLEAN
    /\ blocks = [b \in Blocks |-> FreeBlock]
    /\ handles = [h \in Handles |-> NoHandle]
    /\ th = [t \in Threads |-> Idle]
    /\ ret = [t \in Threads |-> NoCall]
    /\ history = FALSE
    /\ ncalls = 0
    /\ nallocs = 0
NextGrow ==
    \/ \E m \in 0..MaxLen, additional \in 0..MaxAdditional :
            ncalls = 0 /\ New(1, Pattern(m), additional)
    \/ ncalls = 1 /\ CloneFetchAdd(1, 1)
    \/ CloneRet(1)
    \/ /\ ncalls >= 1 /\ ncalls < GrowMaxCalls
       /\ Push(1, 1, PatternByte(handles[1].len + 1))
    \/ AssignDrop(1)
    \/ AssignDealloc(1)
    \/ GateCas(1)
    \/ GateStore(1)
    \/ GateCopy(1)
    \/ Write(1)
SpecGrow == InitGrow /\ [][NextGrow]_vars

\* two threads clone and drop handles of a block whose count is at most
\* CeilMargin below MAX_REFCOUNT: one handle is in a slot, the other
\* referents are clones that were leaked (core::mem::forget) and never drop
InitCeil ==
    /\ debug_assertions \in BOOLEAN
    /\ \E c \in (MAX_REFCOUNT - CeilMargin)..MAX_REFCOUNT :
          blocks = [b \in Blocks |->
                       IF b = 1 THEN [with_capacity(0) EXCEPT !.ref_count = c]
                       ELSE FreeBlock]
    /\ handles = [h \in Handles |->
                     IF h = 1 THEN [st |-> "live", len |-> 0, ptr |-> 1] ELSE NoHandle]
    /\ th = [t \in Threads |-> Idle]
    /\ ret = [t \in Threads |-> NoCall]
    /\ history = TRUE
    /\ ncalls = 0
    /\ nallocs = -1
NextCeil ==
    \/ \E t \in Threads, h \in Handles : ncalls < CeilMaxCalls /\ CloneFetchAdd(t, h)
    \/ \E t \in Threads : CloneRet(t)
    \/ \E t \in Threads, h \in Handles : ncalls < CeilMaxCalls /\ DropFetchSub(t, h)
SpecCeil == InitCeil /\ [][NextCeil]_vars

(* ------------------------------- claims ------------------------------- *)
\* the handles (being dropped or not) that point at block b
Referents(b) == {h \in Handles : handles[h].st # "none" /\ handles[h].ptr = b}
\* the threads holding a freshly built ArcString on block b
Holders(b) == {t \in Threads : th[t].new.st = "live" /\ th[t].new.ptr = b}
\* the threads about to deallocate block b
Freeing(b) ==
    {t \in Threads : th[t].pc \in {"drop_dealloc", "assign_dealloc"}
                     /\ handles[th[t].h].ptr = b}
\* the thread has finished a call and begun no other
Returned(t) == th[t].pc = "idle" /\ ret[t].op # "none"

\* C1: copy-on-write isolation. No step of any thread changes what a live
\* handle reads unless the step changes that handle itself: whatever is done
\* to one handle (on the same thread or interleaved with another thread's
\* call), as_str of every other handle, its clones included, stays as it was.
C1_Isolation ==
    [][\A h \in Handles :
          (handles[h].st = "live" /\ handles'[h] = handles[h])
              => as_slice(handles[h])' = as_slice(handles[h])]_vars

\* a handle is being split off the block it shares with a second handle, on
\* which another thread is inside a call of its own
C1_Witness ==
    \E t1, t2 \in Threads :
        /\ t1 # t2
        /\ th[t1].pc = "assign_drop" /\ th[t1].k = "write"
        /\ th[t2].h # 0 /\ th[t2].h # th[t1].h /\ th[t2].pc # "clone_ret"
        /\ handles[th[t2].h].ptr = handles[th[t1].h].ptr

\* C2: a block is deallocated exactly when its last handle goes. Every live
\* handle and every freshly built ArcString points at an allocated block (no
\* use after free); a thread about to deallocate a block is the only one
\* about to, the block is allocated and no live handle but the one being
\* dropped points at it (no double free, freed only by the last referent);
\* and every allocated block is still pointed at by a handle or held by a
\* thread (no leak).
C2_DeallocAtLastDrop ==
    /\ \A h \in Handles : handles[h].st = "live" => blocks[handles[h].ptr].live
    /\ \A t \in Threads : th[t].new.st = "live" => blocks[th[t].new.ptr].live
    /\ \A b \in Blocks :
          Freeing(b) # {} =>
              /\ blocks[b].live
              /\ Cardinality(Freeing(b)) = 1
              /\ \A h \in Referents(b) : \E t \in Freeing(b) : th[t].h = h
    /\ \A b \in Blocks : blocks[b].live => Referents(b) # {} \/ Holders(b) # {}

\* a handle that found its block shared at the gate turns out, after the
\* other thread dropped its handle meanwhile, to be the last referent and is
\* about to free the block
C2_Witness ==
    \E t \in Threads : th[t].pc = "assign_dealloc" /\ th[t].k = "write"

\* C3: bytes are written only into a block that the writing handle alone
\* points at. A thread past the gate (its compare-and-swap succeeded, or it
\* was re-pointed to a private copy) and about to write is on a block with
\* no other handle and in no other thread's hands.
C3_WriteExclusive ==
    \A t \in Threads :
        th[t].pc \in {"gate_store", "write"} =>
            /\ Referents(handles[th[t].h].ptr) = {th[t].h}
            /\ Holders(handles[th[t].h].ptr) = {}

\* two threads are about to write at once, each through its own handle
C3_Witness ==
    \E t1, t2 \in Threads :
        t1 # t2 /\ th[t1].pc = "write" /\ th[t2].pc = "write"
        /\ th[t1].cur # <<>> /\ th[t2].cur # <<>>

\* C4: construction round-trip. After ArcString::new(T, A) the handle reads
\* exactly the bytes of T, its len is their number and its capacity len + A.
C4_NewRoundTrip ==
    \A t \in Threads :
        (Returned(t) /\ ret[t].op = "new") =>
            /\ ret[t].res = "ok"
            /\ as_str(ret[t].made) = as_bytes(ret[t].arg)
            /\ handles[ret[t].made].len = Len(as_bytes(ret[t].arg))
            /\ capacity(handles[ret[t].made]) = Len(as_bytes(ret[t].arg)) + ret[t].add

\* new was called with a three-byte char and extra capacity
C4_Witness ==
    \E t \in Threads :
        Returned(t) /\ ret[t].op = "new" /\ ret[t].arg = <<8364>> /\ ret[t].add = 1

\* C5: clone transparency. Right after a clone the original and the clone
\* read the same content and len (what the original read before); right
\* after a drop every handle that shared the dropped handle's block is live,
\* on an allocated block, and reads what it read before.
C5_CloneTransparent ==
    \A t \in Threads :
        /\ (Returned(t) /\ ret[t].op = "clone" /\ ret[t].res = "ok") =>
              /\ as_str(ret[t].made) = as_str(ret[t].h)
              /\ as_str(ret[t].h) = ret[t].before
              /\ handles[ret[t].made].len = handles[ret[t].h].len
        /\ (Returned(t) /\ ret[t].op = "drop") =>
              \A g \in DOMAIN ret[t].snap :
                  /\ handles[g].st = "live"
                  /\ blocks[handles[g].ptr].live
                  /\ as_str(g) = ret[t].snap[g]

\* a handle was dropped while another one shared its non-empty content
C5_Witness ==
    \E t \in Threads :
        /\ Returned(t) /\ ret[t].op = "drop"
        /\ \E g \in DOMAIN ret[t].snap : Len(ret[t].snap[g]) > 1

\* C6: UTF-8 validity. Whatever a live handle reads decodes as UTF-8.
C6_ValidUtf8 ==
    \A h \in Handles : handles[h].st = "live" => from_utf8_ok(as_str(h))

\* a multi-byte char was popped off content that is still not empty
C6_Witness ==
    \E t \in Threads :
        /\ Returned(t) /\ ret[t].op = "pop" /\ ret[t].val > 127
        /\ handles[ret[t].h].len > 0

\* C7: len <= capacity. For every live handle, and every ArcString built for
\* a re-pointing, len is at most the capacity of its block.
C7_LenWithinCapacity ==
    /\ \A h \in Handles : handles[h].st = "live" => handles[h].len <= capacity(handles[h])
    /\ \A t \in Threads : th[t].new.st = "live" => th[t].new.len <= capacity(th[t].new)

\* a full private copy was just split off a block that stays with another
\* handle
C7_Witness ==
    \E t \in Threads :
        /\ th[t].pc = "assign_drop" /\ th[t].k = "write"
        /\ th[t].new.len > 0 /\ th[t].new.len + Len(th[t].cur) = capacity(th[t].new)
        /\ \E g \in Handles \ {th[t].h} :
              handles[g].st = "live" /\ handles[g].ptr = handles[th[t].h].ptr

\* C8: pop/push inverse. A push(C) right after a pop that returned C leaves
\* the handle with the content and the len it had before the pop.
C8_PopPushInverse ==
    \A t \in Threads :
        (Returned(t) /\ ret[t].op = "push" /\ ret[t].pp) =>
            /\ ret[t].res = "ok"
            /\ as_str(ret[t].h) = ret[t].orig
            /\ handles[ret[t].h].len = Len(ret[t].orig)

\* a multi-byte char was popped and pushed back on a handle that has a clone
C8_Witness ==
    \E t \in Threads :
        /\ Returned(t) /\ ret[t].op = "push" /\ ret[t].pp /\ ret[t].arg[1] > 127
        /\ \E g \in Handles \ {ret[t].h} :
              handles[g].st = "live" /\ as_str(g) = ret[t].orig

\* C9: push(ch) appends the UTF-8 encoding of ch: the content is the content
\* before followed by those bytes, and len grew by their number.
C9_PushAppends ==
    \A t \in Threads :
        (Returned(t) /\ ret[t].op = "push") =>
            /\ ret[t].res = "ok"
            /\ as_str(ret[t].h) = ret[t].before \o encode_utf8(ret[t].arg[1])
            /\ handles[ret[t].h].len = Len(ret[t].before) + len_utf8(ret[t].arg[1])

\* a three-byte char was pushed after other content, on a handle whose block
\* was shared with a clone
C9_Witness ==
    \E t \in Threads :
        /\ Returned(t) /\ ret[t].op = "push" /\ ret[t].arg = <<8364>>
        /\ ret[t].before # <<>>
        /\ \E g \in Handles \ {ret[t].h} :
              handles[g].st = "live" /\ as_str(g) = ret[t].before

\* C10: push_str(s) completes, and appends the bytes of s: the content is the
\* content before followed by them, and len grew by their number.
C10_PushStrAppends ==
    \A t \in Threads :
        (Returned(t) /\ ret[t].op = "push_str") =>
            /\ ret[t].res = "ok"
            /\ as_str(ret[t].h) = ret[t].before \o as_bytes(ret[t].arg)
            /\ handles[ret[t].h].len = Len(ret[t].before) + Len(as_bytes(ret[t].arg))

\* thread t begins a call in this step and returns from it in the same step
CallInOneStep(t) ==
    ncalls' # ncalls /\ th[t].pc = "idle" /\ th'[t].pc = "idle" /\ ret'[t].n = ncalls'

\* C11: pop removes the last character. On non-empty content it returns the
\* last Unicode scalar value (the content before is the content after
\* followed by that char's encoding) and lowers len by the char's encoded
\* length; on empty content it returns None and len stays. Either way no
\* block changes (bytes, capacity, reference count) and the handle keeps its
\* block.
C11_PopRemovesLast ==
    [][\A t \in Threads, h \in Handles :
          (CallInOneStep(t) /\ ret'[t].op = "pop" /\ ret'[t].h = h) =>
              /\ blocks' = blocks
              /\ handles'[h].ptr = handles[h].ptr
              /\ \A g \in Handles \ {h} : handles'[g] = handles[g]
              /\ ret'[t].res = "ok"
              /\ IF handles[h].len = 0
                 THEN ret'[t].val = -1 /\ handles'[h].len = 0
                 ELSE /\ ret'[t].val \in WideChars
                      /\ as_str(h) = as_str(h)' \o encode_utf8(ret'[t].val)
                      /\ handles'[h].len = handles[h].len - len_utf8(ret'[t].val)]_vars

\* a three-byte char was popped off content that began with another char
C11_Witness ==
    \E t \in Threads :
        /\ Returned(t) /\ ret[t].op = "pop" /\ ret[t].val = 8364
        /\ as_str(ret[t].h) = <<97>>

\* the bytes of the items handed to an extend call, in order
ExtendBytes(c) == IF c.op = "extend_chars" THEN as_bytes(c.arg) ELSE as_bytes(concat(c.arg))

\* C12: extend, from chars or from strings, completes for every sequence
\* (the empty one and those holding empty strings included) and appends the
\* items in order: the content is the content before followed by their bytes,
\* and len grew by their number.
C12_ExtendAppends ==
    \A t \in Threads :
        (Returned(t) /\ ret[t].op \in {"extend_chars", "extend_strs"}) =>
            /\ ret[t].res = "ok"
            /\ as_str(ret[t].h) = ret[t].before \o ExtendBytes(ret[t])
            /\ handles[ret[t].h].len = Len(ret[t].before) + Len(ExtendBytes(ret[t]))

RECURSIVE Pow(_, _)
Pow(b, e) == IF e = 0 THEN 1 ELSE b * Pow(b, e - 1)
\* a <= 5 + log n to the base 3/2
WithinLogBound(a, n) == a <= 5 \/ Pow(3, a - 5) <= Pow(2, a - 5) * n
\* growth runs: the handle pushed onto was cloned first; the pushes begun
Cloned == handles[2].st # "none" \/ th[1].pc = "clone_ret"
Pushes == ncalls - 1 - (IF Cloned THEN 1 ELSE 0)

\* C13: growth. While N bytes are pushed one at a time onto a handle (sole
\* or shared, full or with room), the content stays the original followed by
\* the pushed bytes in order (a clone taken before keeps the original), and
\* the blocks allocated by those pushes number at most 5 + log N to the base
\* 3/2: logarithmic in N, not one per push.
C13_Growth ==
    ncalls >= 1 =>
        /\ th[1].pc = "idle" => as_str(1) = Pattern(handles[1].len)
        /\ (th[1].pc = "idle" /\ handles[2].st = "live") =>
              /\ as_str(2) = Pattern(handles[2].len)
              /\ handles[1].len = handles[2].len + Pushes
        /\ nallocs - 1 <= Pushes
        /\ WithinLogBound(nallocs - 1, Pushes)

\* more than thirty bytes were pushed onto a handle that began shared, with
\* at most one allocation for every three pushes
C13_Witness ==
    /\ th[1].pc = "idle" /\ handles[2].st = "live"
    /\ Pushes > 30 /\ 3 * (nallocs - 1) <= Pushes

\* thread t begins reserve(additional) on handle h in this step
ReserveBegins(t, h, additional) ==
    /\ ncalls' # ncalls /\ th[t].pc = "idle"
    /\ LET c == IF th'[t].pc = "idle" THEN ret'[t] ELSE th'[t].call
       IN  c.n = ncalls' /\ c.op = "reserve" /\ c.h = h /\ c.add = additional

\* C14: reserve(additional) with additional >= 1. If capacity - len already
\* covers it, the call returns at once and nothing changes (handles, blocks).
\* Otherwise a block of capacity max(3 * capacity / 2, capacity + additional)
\* and reference count 1 is allocated holding the same content and len, and
\* when the call returns the handle has been re-pointed to it. Either way
\* capacity - len >= additional on return.
C14_Reserve ==
    [][\A t \in Threads, h \in Handles :
          /\ \A additional \in 1..MaxAdditional :
                ReserveBegins(t, h, additional) =>
                    IF capacity(handles[h]) - handles[h].len >= additional
                    THEN /\ th'[t].pc = "idle" /\ ret'[t].res = "ok"
                         /\ handles' = handles /\ blocks' = blocks
                    ELSE /\ th'[t].pc = "assign_drop"
                         /\ handles' = handles
                         /\ ~blocks[th'[t].new.ptr].live
                         /\ \A b \in Blocks \ {th'[t].new.ptr} : blocks'[b] = blocks[b]
                         /\ blocks'[th'[t].new.ptr].live
                         /\ blocks'[th'[t].new.ptr].ref_count = 1
                         /\ blocks'[th'[t].new.ptr].capacity =
                               Max((3 * capacity(handles[h])) \div 2,
                                   capacity(handles[h]) + additional)
                         /\ th'[t].new.len = handles[h].len
                         /\ as_slice(th[t].new)' = as_str(h)
          /\ (/\ th[t].pc \in {"assign_drop", "assign_dealloc"} /\ th[t].k = "done"
              /\ th[t].h = h /\ th'[t].pc = "idle") =>
                    /\ ret'[t].op = "reserve" /\ ret'[t].res = "ok"
                    /\ handles'[h] = th[t].new
                    /\ blocks'[th[t].new.ptr] = blocks[th[t].new.ptr]
                    /\ as_str(h)' = ret'[t].before
                    /\ capacity(handles[h])' - handles'[h].len >= ret'[t].add]_vars

\* reserve(1) on a full handle of capacity 4 returned with capacity 6 (the
\* amortized target, above capacity + additional)
C14_Witness ==
    \E t \in Threads :
        /\ Returned(t) /\ ret[t].op = "reserve" /\ ret[t].add = 1 /\ ret[t].res = "ok"
        /\ handles[ret[t].h].len = 4 /\ capacity(handles[ret[t].h]) = 6

\* C15: clone is a reference-count increment and nothing else. Its first
\* step (the fetch_add of a thread, whatever the other threads are doing,
\* clones of the same handle included) raises the reference count of the
\* handle's block by exactly one and changes nothing else: no block is
\* allocated, no byte, capacity or handle changes. Its second step fills one
\* empty slot with a handle of the same len and block, and changes no block
\* and no other handle, so the original keeps its len, block, capacity and
\* bytes.
C15_CloneIncrements ==
    [][\A t \in Threads :
          /\ (th[t].pc = "idle" /\ th'[t].pc = "clone_ret") =>
                /\ handles' = handles
                /\ handles[th'[t].h].st = "live"
                /\ blocks' = [blocks EXCEPT ![handles[th'[t].h].ptr].ref_count =
                                 blocks[handles[th'[t].h].ptr].ref_count + 1]
          /\ (th[t].pc = "clone_ret" /\ th'[t].pc = "idle") =>
                /\ blocks' = blocks
                /\ \E g \in Handles :
                      /\ handles[g].st = "none"
                      /\ handles' = [handles EXCEPT
                            ![g] = [st |-> "live", len |-> handles[th[t].h].len,
                                    ptr |-> handles[th[t].h].ptr]]]_vars

\* two threads are cloning the same handle at once, both past their
\* fetch_add: the count is the one handle plus the two clones to come
C15_Witness ==
    \E t1, t2 \in Threads :
        /\ t1 # t2 /\ th[t1].pc = "clone_ret" /\ th[t2].pc = "clone_ret"
        /\ th[t1].h = th[t2].h
        /\ blocks[handles[th[t1].h].ptr].ref_count = 3

\* isize::MAX of the target
ISIZE_MAX == (USIZE_MAX - 1) \div 2
\* thread t begins a clone of handle h in this step
CloneBegins(t, h) ==
    /\ ncalls' # ncalls /\ th[t].pc = "idle"
    /\ LET c == IF th'[t].pc = "idle" THEN ret'[t] ELSE th'[t].call
       IN  c.n = ncalls' /\ c.op = "clone" /\ c.h = h

\* C16: the reference-count ceiling. A clone that observes a count of
\* isize::MAX or more before its increment panics at once and makes no
\* handle (no slot is filled, the record names none); a clone that observes
\* a smaller count goes on, and returns a live handle. The failure is a
\* panic, never a value returned to the caller.
C16_Ceiling ==
    [][\A t \in Threads, h \in Handles :
          /\ CloneBegins(t, h) =>
                IF blocks[handles[h].ptr].ref_count >= ISIZE_MAX
                THEN /\ th'[t].pc = "idle"
                     /\ ret'[t].res = "panic" /\ ret'[t].made = 0
                     /\ handles' = handles
                ELSE th'[t].pc = "clone_ret"
          /\ (th[t].pc = "clone_ret" /\ th'[t].pc = "idle") =>
                /\ ret'[t].op = "clone" /\ ret'[t].res = "ok"
                /\ handles[ret'[t].made].st = "none"
                /\ handles'[ret'[t].made].st = "live"]_vars

\* of two clones of one handle running at once, one observed a count below
\* the ceiling and returned a handle, the other observed the ceiling and
\* panicked
C16_Witness ==
    \E t1, t2 \in Threads :
        /\ t1 # t2 /\ Returned(t1) /\ Returned(t2)
        /\ ret[t1].op = "clone" /\ ret[t1].res = "panic"
        /\ ret[t2].op = "clone" /\ ret[t2].res = "ok"
        /\ ret[t1].h = ret[t2].h
        /\ blocks[handles[ret[t1].h].ptr].ref_count = MAX_REFCOUNT + 1

\* the steps a thread record still has before it, at most: ten for each item
\* its extend loop still holds, plus those of the item or call under way
StepsLeft(r) ==
    10 * Len(r.rest) +
    CASE r.pc = "idle" -> 0
      [] r.pc \in {"clone_ret", "drop_dealloc", "iter"} -> 1
      [] r.pc = "write" -> 2
      [] r.pc = "gate_store" -> 3
      [] r.pc = "gate_copy" -> 6
      [] r.pc = "gate" -> 7
      [] r.pc = "assign_dealloc" -> IF r.k = "gate" THEN 8 ELSE IF r.k = "write" THEN 4 ELSE 2
      [] r.pc = "assign_drop" -> IF r.k = "gate" THEN 9 ELSE IF r.k = "write" THEN 5 ELSE 3

\* C17: no stall. A thread inside a call gets out of it whatever the other
\* threads do to handles sharing its block (it is never left waiting and
\* never loops): once begun, the call returns; each of the thread's steps
\* brings the call strictly closer to its return, by a count that no other
\* thread's step changes; and a compare-and-swap that fails in the gate is
\* followed by the private copy, never by another compare-and-swap.
C17_NoStall ==
    /\ \A t \in Threads : (th[t].pc # "idle") ~> (th[t].pc = "idle")
    /\ [][\A t \in Threads :
             /\ th'[t] # th[t] =>
                   \/ th[t].pc = "idle"
                   \/ StepsLeft(th'[t]) < StepsLeft(th[t])
             /\ (th[t].pc = "gate" /\ th'[t] # th[t]) =>
                   /\ th'[t].pc \in {"gate_store", "gate_copy"}
                   /\ th'[t].pc = "gate_copy" <=>
                         blocks[handles[th[t].h].ptr].ref_count # 1]_vars

\* both threads are at the compare-and-swap of the gate on handles of one
\* shared block
C17_Witness ==
    \E t1, t2 \in Threads :
        /\ t1 # t2 /\ th[t1].pc = "gate" /\ th[t2].pc = "gate"
        /\ handles[th[t1].h].ptr = handles[th[t2].h].ptr

\* C18: the gate on a sole referent. When the count of the handle's block
\* is exactly 1 the compare-and-swap succeeds and sets it to 0, and the next
\* step of the gate stores 1 again; neither step allocates a block, touches
\* another block or changes a handle, so the handle keeps its block. The
\* count is 0 under a live handle only between those two steps (or while the
\* old block of a handle being re-pointed is freed): a thread past the gate,
\* and every live handle with no call running on it, has a count >= 1.
C18_GateSole ==
    /\ [](\A h \in Handles :
             (handles[h].st = "live" /\ blocks[handles[h].ptr].ref_count = 0) =>
                 \E t \in Threads :
                     th[t].h = h /\ th[t].pc \in {"gate_store", "assign_dealloc"})
    /\ [][\A t \in Threads :
             /\ (/\ th[t].pc = "gate" /\ th'[t] # th[t]
                 /\ blocks[handles[th[t].h].ptr].ref_count = 1) =>
                   /\ th'[t].pc = "gate_store"
                   /\ handles' = handles
                   /\ blocks' = [blocks EXCEPT ![handles[th[t].h].ptr].ref_count = 0]
             /\ (th[t].pc = "gate_store" /\ th'[t] # th[t]) =>
                   /\ th'[t].pc = "write"
                   /\ handles' = handles
                   /\ blocks[handles[th[t].h].ptr].ref_count = 0
                   /\ blocks' = [blocks EXCEPT ![handles[th[t].h].ptr].ref_count = 1]]_vars

\* both threads are between the compare-and-swap and the store, each on a
\* block of its own
C18_Witness ==
    \E t1, t2 \in Threads :
        /\ t1 # t2 /\ th[t1].pc = "gate_store" /\ th[t2].pc = "gate_store"
        /\ blocks[handles[th[t1].h].ptr].ref_count = 0
        /\ blocks[handles[th[t2].h].ptr].ref_count = 0

\* C19: the gate on a shared block. When the compare-and-swap finds a count
\* other than 1 it changes nothing and the copy follows: exactly one block is
\* allocated, with reference count 1, the capacity of the old block and the
\* handle's bytes [0, len), for a value of the same len. Then the old block's
\* count is lowered by exactly one; if it was not 1 the old block is
\* otherwise untouched (allocated, same bytes, same capacity) and the handle
\* is re-pointed to the copy; if it was 1 (the other referents went away
\* meanwhile) the old block, which no other handle points at, is freed and
\* the handle re-pointed. Either way the write follows.
C19_GateShared ==
    [][\A t \in Threads :
          /\ (/\ th[t].pc = "gate" /\ th'[t] # th[t]
              /\ blocks[handles[th[t].h].ptr].ref_count # 1) =>
                /\ th'[t].pc = "gate_copy"
                /\ handles' = handles /\ blocks' = blocks
          /\ (th[t].pc = "gate_copy" /\ th'[t] # th[t]) =>
                /\ th'[t].pc = "assign_drop" /\ th'[t].k = "write"
                /\ handles' = handles
                /\ ~blocks[th'[t].new.ptr].live
                /\ \A b \in Blocks \ {th'[t].new.ptr} : blocks'[b] = blocks[b]
                /\ blocks'[th'[t].new.ptr].live
                /\ blocks'[th'[t].new.ptr].ref_count = 1
                /\ blocks'[th'[t].new.ptr].capacity = capacity(handles[th[t].h])
                /\ th'[t].new.len = handles[th[t].h].len
                /\ as_slice(th[t].new)' = as_str(th[t].h)
          /\ (th[t].pc = "assign_drop" /\ th[t].k = "write" /\ th'[t] # th[t]) =>
                /\ blocks[handles[th[t].h].ptr].ref_count >= 1
                /\ blocks' = [blocks EXCEPT ![handles[th[t].h].ptr].ref_count =
                                 blocks[handles[th[t].h].ptr].ref_count - 1]
                /\ IF blocks[handles[th[t].h].ptr].ref_count = 1
                   THEN th'[t].pc = "assign_dealloc" /\ handles' = handles
                   ELSE /\ th'[t].pc = "write"
                        /\ handles' = [handles EXCEPT ![th[t].h] = th[t].new]
          /\ (th[t].pc = "assign_dealloc" /\ th[t].k = "write" /\ th'[t] # th[t]) =>
                /\ Referents(handles[th[t].h].ptr) = {th[t].h}
                /\ blocks' = [blocks EXCEPT ![handles[th[t].h].ptr] = FreeBlock]
                /\ handles' = [handles EXCEPT ![th[t].h] = th[t].new]
                /\ th'[t].pc = "write"]_vars

\* a copy with room to spare was made of non-empty content, for a handle
\* whose block still counts two referents, while the other thread is inside
\* a call too
C19_Witness ==
    \E t1, t2 \in Threads :
        /\ t1 # t2 /\ th[t2].pc # "idle"
        /\ th[t1].pc = "assign_drop" /\ th[t1].k = "write"
        /\ th[t1].new.len >= 1 /\ capacity(th[t1].new) > th[t1].new.len
        /\ blocks[handles[th[t1].h].ptr].ref_count = 2

\* the threads between the atomic steps of a clone, a drop (that of
\* `*self = ..` included) or the gate, on a handle of block b or holding b
MidFlight(b) ==
    {t \in Threads :
        /\ th[t].pc \in {"clone_ret", "drop_dealloc", "gate_store",
                         "assign_drop", "assign_dealloc"}
        /\ handles[th[t].h].ptr = b \/ th[t].new.ptr = b}

\* C20: reference-count accounting. For every allocated block on which no
\* clone, drop or gate is mid-flight (so in every state where none is at
\* all), the stored reference count is the number of live handles that point
\* at the block.
C20_CountIsHandles ==
    \A b \in Blocks :
        (blocks[b].live /\ MidFlight(b) = {}) =>
            blocks[b].ref_count =
                Cardinality({h \in Handles : handles[h].st = "live" /\ handles[h].ptr = b})

\* no thread is inside a call and three live handles share one block, whose
\* count is 3
C20_Witness ==
    /\ \A t \in Threads : th[t].pc = "idle"
    /\ \E b \in Blocks :
          /\ blocks[b].live /\ blocks[b].ref_count = 3
          /\ Cardinality({h \in Handles : handles[h].st = "live" /\ handles[h].ptr = b}) = 3

\* the calls that reach reserve with an argument the caller of the type did
\* not choose, and the direct calls of reserve the claim speaks of
ReachesReserve(c) ==
    \/ c.op \in {"push", "push_str", "extend_chars", "extend_strs"}
    \/ c.op = "reserve" /\ c.add > 0

\* C21: the debug assertions of reserve hold on every call reachable through
\* the public operations. In a build that evaluates them (a failed assertion
\* is a panic there) no push, push_str or extend, whatever its input, and no
\* reserve of one byte or more, ends in a panic: `additional > 0` held at
\* every call of reserve they made, and `new_capacity > capacity` at every
\* reallocation.
C21_AssertionsHold ==
    \A t \in Threads :
        (Returned(t) /\ debug_assertions /\ ReachesReserve(ret[t])) => ret[t].res = "ok"

====
